---- MODULE Spec2Model ----
\* Model of download_stock_data (src/download_data.py): the per-symbol retry
\* loop with exponential backoff, the fixed retry delay after an empty result,
\* the inter-symbol delay, the result mapping and the log.
\* Times are in milliseconds.
EXTENDS Integers, Sequences, FiniteSets, TLC

\* ---------------------------------------------------------------- bounds
MaxSymbols == 2
MaxRetries == 3
\* the largest request budget of a run, Len(symbols) * max_retries
MaxRequests == 6

\* ---------------------------------------------------------------- inputs
Symbols == {"AAPL", "BADSYM", "MSFT"}

SymbolLists == UNION {[1..n -> Symbols] : n \in 0..MaxSymbols}

\* random.uniform(0, 1) is a value r with 0 <= r < 1; sampled in milliseconds
JitterMs == {0, 999}

\* tables the provider can hand back: the index name and the column names
RawLayouts ==
  { [index |-> "Date",  columns |-> <<"Close", "High", "Low", "Open", "Volume">>],
    [index |-> "Datetime", columns |-> <<"Open", "High", "Low", "Close", "Adj Close", "Volume">>] }

\* calls: the invocations already returned, each with its mapping and its trace
VARIABLES symbols, max_retries, pc, occ, attempt, stock_data, events, calls

vars == <<symbols, max_retries, pc, occ, attempt, stock_data, events, calls>>

\* ---------------------------------------------------------------- helpers
Ev(kind, level, tag, o, a, ms) ==
  [kind |-> kind, level |-> level, tag |-> tag, occ |-> o,
   symbol |-> IF o \in 1..Len(symbols) THEN symbols[o] ELSE "", attempt |-> a, ms |-> ms]

LogEv(level, tag, o, a, ms) == Ev("log", level, tag, o, a, ms)
RequestEv(outcome, o, a)    == Ev("request", "", outcome, o, a, 0)
SleepEv(tag, o, a, ms)      == Ev("sleep", "", tag, o, a, ms)

\* a request answered with a non-empty table: the event keeps the raw table
DataEv(raw, o, a) ==
  [kind |-> "request", level |-> "", tag |-> "nonempty", occ |-> o,
   symbol |-> symbols[o], attempt |-> a, ms |-> 0, raw |-> raw]

\* range(result.shape[1])
RangeLabels(n) == [k \in 1..n |-> k - 1]

IntLabel(k) == IF k < 10 THEN <<"0","1","2","3","4","5","6","7","8","9">>[k + 1] ELSE "n"

\* variant: the names are given in the order Open, High, Low, Close
RenameLabel_OHLC(k) ==
  CASE k = 0 -> "Date"
    [] k = 1 -> "Open"
    [] k = 2 -> "High"
    [] k = 3 -> "Low"
    [] k = 4 -> "Close"
    [] k = 5 -> "Volume"
    [] OTHER -> IntLabel(k)

\* result.rename(columns={0: 'Date', 1: 'Close', 2: 'High', 3: 'Low', 4: 'Open', 5: 'Volume'})
RenameLabel(k) ==
  CASE k = 0 -> "Date"
    [] k = 1 -> "Close"
    [] k = 2 -> "High"
    [] k = 3 -> "Low"
    [] k = 4 -> "Open"
    [] k = 5 -> "Volume"
    [] OTHER -> IntLabel(k)

\* lines 50-56: reset_index, positional relabel, rename, set_index('Date')
Normalize(data) ==
  LET reset   == <<data.index>> \o data.columns
      ranged  == RangeLabels(Len(reset))
      renamed == [k \in 1..Len(ranged) |-> RenameLabel(ranged[k])]
  IN  [index |-> renamed[1], columns |-> Tail(renamed), src |-> data.src,
       \* the raw column whose values each normalized column holds
       index_holds |-> reset[1], holds |-> Tail(reset)]

\* variant: stock_data.setdefault(symbol, result), the first series is kept
Insert_KeepsFirst(sd, symbol, result) ==
  [s \in DOMAIN sd \cup {symbol} |-> IF s \in DOMAIN sd THEN sd[s] ELSE result]

\* stock_data[symbol] = result
Insert(sd, symbol, result) ==
  [s \in DOMAIN sd \cup {symbol} |-> IF s = symbol THEN result ELSE sd[s]]

\* variant: the bound of the last attempt is off by one
AttemptsRemain_OffByOne(a) == a < max_retries

\* attempt < max_retries - 1
AttemptsRemain(a) == a < max_retries - 1

\* time.sleep(2)
RetryDelayMs == 2000

\* time.sleep(1.5)
InterSymbolDelayMs == 1500

\* variant: the exponent is the 1-based attempt number
BackoffMs_OneBased(a, jitter) == (2 ^ (a + 1)) * 1000 + jitter

\* (2 ** attempt) + random.uniform(0, 1)
BackoffMs(a, jitter) == (2 ^ a) * 1000 + jitter

\* variant: the retry loop runs one attempt too many
AfterFailedAttemptPc_OneMore(a) == IF a < max_retries THEN "attempt" ELSE "between"

\* for attempt in range(max_retries): the position after a failed attempt
AfterFailedAttemptPc(a) == IF a + 1 < max_retries THEN "attempt" ELSE "between"

\* break
AfterSuccessPc == "between"

\* ---------------------------------------------------------------- state machine
Init ==
  /\ symbols \in SymbolLists
  /\ max_retries \in 1..MaxRetries
  /\ Len(symbols) * max_retries <= MaxRequests
  /\ pc = "start"
  /\ occ = 0
  /\ attempt = 0
  /\ stock_data = [s \in {} |-> 0]
  /\ events = <<>>
  /\ calls = <<>>

\* lines 20-29
Start ==
  /\ pc = "start"
  /\ stock_data' = [s \in {} |-> 0]
  /\ events' = Append(events, LogEv("INFO", "start", 0, 0, Len(symbols)))
  /\ pc' = "for"
  /\ UNCHANGED <<calls, symbols, max_retries, occ, attempt>>

\* variant: the attempt counter is shared by the symbols and not reset
NextSymbol_KeepsAttempt ==
  /\ pc = "for"
  /\ occ < Len(symbols)
  /\ occ' = occ + 1
  /\ attempt' = attempt
  /\ pc' = "attempt"
  /\ UNCHANGED <<calls, symbols, max_retries, stock_data, events>>

\* line 31: the next symbol of the list, or the end of the loop
NextSymbol ==
  /\ pc = "for"
  /\ occ < Len(symbols)
  /\ occ' = occ + 1
  /\ attempt' = 0
  /\ pc' = "attempt"
  /\ UNCHANGED <<calls, symbols, max_retries, stock_data, events>>

\* variant: no break after a success, the retry loop goes on
AttemptSuccess_NoBreak ==
  /\ pc = "attempt"
  /\ \E raw \in RawLayouts :
       LET data   == [index |-> raw.index, columns |-> raw.columns, src |-> <<occ, attempt>>]
           result == Normalize(data)
       IN  /\ stock_data' = Insert(stock_data, symbols[occ], result)
           /\ events' = events \o
                << LogEv("INFO", "attempt", occ, attempt, 0),
                   DataEv(raw, occ, attempt),
                   LogEv("INFO", "success", occ, attempt, 0) >>
  /\ pc' = AfterFailedAttemptPc(attempt)
  /\ attempt' = IF AfterFailedAttemptPc(attempt) = "attempt" THEN attempt + 1 ELSE attempt
  /\ UNCHANGED <<calls, symbols, max_retries, occ>>

\* variant: the fixed retry delay is slept after a success too
AttemptSuccess_SleepsAfter ==
  /\ pc = "attempt"
  /\ \E raw \in RawLayouts :
       LET data   == [index |-> raw.index, columns |-> raw.columns, src |-> <<occ, attempt>>]
           result == Normalize(data)
       IN  /\ stock_data' = Insert(stock_data, symbols[occ], result)
           /\ events' = events \o
                << LogEv("INFO", "attempt", occ, attempt, 0),
                   DataEv(raw, occ, attempt),
                   LogEv("INFO", "success", occ, attempt, 0) >> \o
                (IF AttemptsRemain(attempt)
                   THEN << SleepEv("retry", occ, attempt, RetryDelayMs) >>
                   ELSE << >>)
  /\ pc' = AfterSuccessPc
  /\ UNCHANGED <<calls, symbols, max_retries, occ, attempt>>

\* lines 34-59: a non-empty result
AttemptSuccess ==
  /\ pc = "attempt"
  /\ \E raw \in RawLayouts :
       LET data   == [index |-> raw.index, columns |-> raw.columns, src |-> <<occ, attempt>>]
           result == Normalize(data)
       IN  /\ stock_data' = Insert(stock_data, symbols[occ], result)
           /\ events' = events \o
                << LogEv("INFO", "attempt", occ, attempt, 0),
                   DataEv(raw, occ, attempt),
                   LogEv("INFO", "success", occ, attempt, 0) >>
  /\ pc' = AfterSuccessPc
  /\ UNCHANGED <<calls, symbols, max_retries, occ, attempt>>

\* variant: the emptiness test is missing, an empty table is stored
AttemptEmpty_StoresEmpty ==
  /\ pc = "attempt"
  /\ stock_data' = Insert(stock_data, symbols[occ],
                          Normalize([index |-> "Date", columns |-> << >>, src |-> <<occ, attempt>>]))
  /\ events' = events \o
       << LogEv("INFO", "attempt", occ, attempt, 0),
          RequestEv("empty", occ, attempt),
          LogEv("INFO", "success", occ, attempt, 0) >>
  /\ pc' = AfterSuccessPc
  /\ UNCHANGED <<calls, symbols, max_retries, occ, attempt>>

\* variant: the fixed delay is slept after every empty result, the last included
AttemptEmpty_AlwaysSleeps ==
  /\ pc = "attempt"
  /\ events' = events \o
       << LogEv("INFO", "attempt", occ, attempt, 0),
          RequestEv("empty", occ, attempt),
          LogEv("WARNING", "nodata", occ, attempt, 0),
          SleepEv("retry", occ, attempt, RetryDelayMs) >>
  /\ pc' = AfterFailedAttemptPc(attempt)
  /\ attempt' = IF AfterFailedAttemptPc(attempt) = "attempt" THEN attempt + 1 ELSE attempt
  /\ UNCHANGED <<calls, symbols, max_retries, occ, stock_data>>

\* lines 34-48, 60-63: an empty result
AttemptEmpty ==
  /\ pc = "attempt"
  /\ events' = events \o
       << LogEv("INFO", "attempt", occ, attempt, 0),
          RequestEv("empty", occ, attempt),
          LogEv("WARNING", "nodata", occ, attempt, 0) >> \o
       (IF AttemptsRemain(attempt)
          THEN << SleepEv("retry", occ, attempt, RetryDelayMs) >>
          ELSE << >>)
  /\ pc' = AfterFailedAttemptPc(attempt)
  /\ attempt' = IF AfterFailedAttemptPc(attempt) = "attempt" THEN attempt + 1 ELSE attempt
  /\ UNCHANGED <<calls, symbols, max_retries, occ, stock_data>>

\* variant: the error of the last attempt is raised again
AttemptError_Reraises ==
  /\ pc = "attempt"
  /\ \E jitter \in JitterMs :
       events' = events \o
         << LogEv("INFO", "attempt", occ, attempt, 0),
            RequestEv("error", occ, attempt),
            LogEv("ERROR", "error", occ, attempt, 0) >> \o
         (IF AttemptsRemain(attempt)
            THEN << LogEv("INFO", "waiting", occ, attempt, BackoffMs(attempt, jitter)),
                    SleepEv("backoff", occ, attempt, BackoffMs(attempt, jitter)) >>
            ELSE << LogEv("ERROR", "exhausted", occ, attempt, 0) >>)
  /\ pc' = IF AttemptsRemain(attempt) THEN AfterFailedAttemptPc(attempt) ELSE "raised"
  /\ attempt' = IF AfterFailedAttemptPc(attempt) = "attempt" THEN attempt + 1 ELSE attempt
  /\ UNCHANGED <<calls, symbols, max_retries, occ, stock_data>>

\* variant: the handler drops the entry of the symbol that failed
AttemptError_DropsEntry ==
  /\ pc = "attempt"
  /\ \E jitter \in JitterMs :
       events' = events \o
         << LogEv("INFO", "attempt", occ, attempt, 0),
            RequestEv("error", occ, attempt),
            LogEv("ERROR", "error", occ, attempt, 0) >> \o
         (IF AttemptsRemain(attempt)
            THEN << LogEv("INFO", "waiting", occ, attempt, BackoffMs(attempt, jitter)),
                    SleepEv("backoff", occ, attempt, BackoffMs(attempt, jitter)) >>
            ELSE << LogEv("ERROR", "exhausted", occ, attempt, 0) >>)
  /\ stock_data' = [s \in DOMAIN stock_data \ {symbols[occ]} |-> stock_data[s]]
  /\ pc' = AfterFailedAttemptPc(attempt)
  /\ attempt' = IF AfterFailedAttemptPc(attempt) = "attempt" THEN attempt + 1 ELSE attempt
  /\ UNCHANGED <<calls, symbols, max_retries, occ>>

\* variant: the symbol is given up when the drawn delay passes the half second
AttemptError_GivesUpOnLongDelay ==
  /\ pc = "attempt"
  /\ \E jitter \in JitterMs :
       /\ events' = events \o
            << LogEv("INFO", "attempt", occ, attempt, 0),
               RequestEv("error", occ, attempt),
               LogEv("ERROR", "error", occ, attempt, 0) >> \o
            (IF AttemptsRemain(attempt)
               THEN << LogEv("INFO", "waiting", occ, attempt, BackoffMs(attempt, jitter)),
                       SleepEv("backoff", occ, attempt, BackoffMs(attempt, jitter)) >>
               ELSE << LogEv("ERROR", "exhausted", occ, attempt, 0) >>)
       /\ pc' = IF jitter > 500 THEN "between" ELSE AfterFailedAttemptPc(attempt)
       /\ attempt' = IF jitter <= 500 /\ AfterFailedAttemptPc(attempt) = "attempt"
                       THEN attempt + 1 ELSE attempt
  /\ UNCHANGED <<calls, symbols, max_retries, occ, stock_data>>

\* variant: the exponent is the number of errors the symbol has had so far
AttemptError_CountsErrors ==
  /\ pc = "attempt"
  /\ \E jitter \in JitterMs :
       LET errors == Cardinality({k \in DOMAIN events :
                        /\ events[k].kind = "request"
                        /\ events[k].occ = occ
                        /\ events[k].tag = "error"})
       IN  events' = events \o
             << LogEv("INFO", "attempt", occ, attempt, 0),
                RequestEv("error", occ, attempt),
                LogEv("ERROR", "error", occ, attempt, 0) >> \o
             (IF AttemptsRemain(attempt)
                THEN << LogEv("INFO", "waiting", occ, attempt, BackoffMs(errors, jitter)),
                        SleepEv("backoff", occ, attempt, BackoffMs(errors, jitter)) >>
                ELSE << LogEv("ERROR", "exhausted", occ, attempt, 0) >>)
  /\ pc' = AfterFailedAttemptPc(attempt)
  /\ attempt' = IF AfterFailedAttemptPc(attempt) = "attempt" THEN attempt + 1 ELSE attempt
  /\ UNCHANGED <<calls, symbols, max_retries, occ, stock_data>>

\* lines 34-46, 65-73: the request raises
AttemptError ==
  /\ pc = "attempt"
  /\ \E jitter \in JitterMs :
       events' = events \o
         << LogEv("INFO", "attempt", occ, attempt, 0),
            RequestEv("error", occ, attempt),
            LogEv("ERROR", "error", occ, attempt, 0) >> \o
         (IF AttemptsRemain(attempt)
            THEN << LogEv("INFO", "waiting", occ, attempt, BackoffMs(attempt, jitter)),
                    SleepEv("backoff", occ, attempt, BackoffMs(attempt, jitter)) >>
            ELSE << LogEv("ERROR", "exhausted", occ, attempt, 0) >>)
  /\ pc' = AfterFailedAttemptPc(attempt)
  /\ attempt' = IF AfterFailedAttemptPc(attempt) = "attempt" THEN attempt + 1 ELSE attempt
  /\ UNCHANGED <<calls, symbols, max_retries, occ, stock_data>>

\* variant: no delay after the last symbol of the list
InterSymbolSleep_SkipLast ==
  /\ pc = "between"
  /\ events' = IF occ < Len(symbols)
                 THEN Append(events, SleepEv("inter", occ, attempt, InterSymbolDelayMs))
                 ELSE events
  /\ pc' = "for"
  /\ UNCHANGED <<calls, symbols, max_retries, occ, attempt, stock_data>>

\* line 76
InterSymbolSleep ==
  /\ pc = "between"
  /\ events' = Append(events, SleepEv("inter", occ, attempt, InterSymbolDelayMs))
  /\ pc' = "for"
  /\ UNCHANGED <<calls, symbols, max_retries, occ, attempt, stock_data>>

\* variant: the rate-limit delay is slept after the loop
Finish_TrailingSleep ==
  /\ pc = "for"
  /\ occ >= Len(symbols)
  /\ events' = events \o << SleepEv("inter", occ, attempt, InterSymbolDelayMs),
                            LogEv("INFO", "completed", 0, 0, 0) >>
  /\ pc' = "done"
  /\ UNCHANGED <<calls, symbols, max_retries, occ, attempt, stock_data>>

\* lines 78-79
Finish ==
  /\ pc = "for"
  /\ occ >= Len(symbols)
  /\ events' = Append(events, LogEv("INFO", "completed", 0, 0, 0))
  /\ pc' = "done"
  /\ UNCHANGED <<calls, symbols, max_retries, occ, attempt, stock_data>>

Next ==
  \/ Start
  \/ NextSymbol
  \/ AttemptSuccess
  \/ AttemptEmpty
  \/ AttemptError
  \/ InterSymbolSleep
  \/ Finish

Spec == Init /\ [][Next]_vars

\* the function is one sequential thread that is never suspended for good:
\* every sleep and every request returns, so an enabled step is taken
FairSpec == Spec /\ WF_vars(Next)

\* the caller invokes the function again with the same arguments
CallAgain ==
  /\ pc = "done"
  /\ calls = <<>>
  /\ calls' = Append(calls, [returned |-> stock_data, events |-> events])
  /\ pc' = "start"
  /\ occ' = 0
  /\ attempt' = 0
  /\ events' = <<>>
  /\ UNCHANGED <<symbols, max_retries, stock_data>>

\* the provider is deterministic: a request of this invocation that an earlier
\* invocation made at the same list position and attempt has the same answer
SameProvider ==
  \A c \in DOMAIN calls :
    \A k \in DOMAIN events :
      \A j \in DOMAIN calls[c].events :
        LET e == events[k]
            f == calls[c].events[j]
        IN  (e.kind = "request" /\ f.kind = "request" /\ f.occ = e.occ /\ f.attempt = e.attempt) =>
              /\ f.tag = e.tag
              /\ f.tag = "nonempty" => f.raw = e.raw

SameAttemptSuccess == AttemptSuccess /\ SameProvider'
SameAttemptEmpty   == AttemptEmpty /\ SameProvider'
SameAttemptError   == AttemptError /\ SameProvider'

IdemInit ==
  /\ Init
  /\ Len(symbols) * max_retries + 2 <= MaxRequests

IdemNext ==
  \/ Start
  \/ NextSymbol
  \/ SameAttemptSuccess
  \/ SameAttemptEmpty
  \/ SameAttemptError
  \/ InterSymbolSleep
  \/ Finish
  \/ CallAgain

\* two invocations, one after the other, against a deterministic provider
IdemSpec == IdemInit /\ [][IdemNext]_vars

\* tables on which result = data.reset_index(drop=False) raises: the name of
\* the index is already the name of a column
ClashingLayouts ==
  { [index |-> "Date", columns |-> <<"Date", "Close", "High", "Low", "Open", "Volume">>] }

\* reset_index cannot insert the index as a column
NormalizeRaises(raw) == \E p \in DOMAIN raw.columns : raw.columns[p] = raw.index

\* lines 65-73: the except clause
ExceptClause(jitter) ==
  << LogEv("ERROR", "error", occ, attempt, 0) >> \o
  (IF AttemptsRemain(attempt)
     THEN << LogEv("INFO", "waiting", occ, attempt, BackoffMs(attempt, jitter)),
             SleepEv("backoff", occ, attempt, BackoffMs(attempt, jitter)) >>
     ELSE << LogEv("ERROR", "exhausted", occ, attempt, 0) >>)

\* lines 34-37, 65-73: setting the client header raises, no request is made
AttemptHeaderRaises ==
  /\ pc = "attempt"
  /\ \E jitter \in JitterMs :
       events' = events \o << LogEv("INFO", "attempt", occ, attempt, 0) >> \o ExceptClause(jitter)
  /\ pc' = AfterFailedAttemptPc(attempt)
  /\ attempt' = IF AfterFailedAttemptPc(attempt) = "attempt" THEN attempt + 1 ELSE attempt
  /\ UNCHANGED <<calls, symbols, max_retries, occ, stock_data>>

\* variant: the table is stored before it is normalized
AttemptNormalizeRaises_InsertsFirst ==
  /\ pc = "attempt"
  /\ \E raw \in ClashingLayouts : \E jitter \in JitterMs :
       /\ NormalizeRaises(raw)
       /\ events' = events \o
            << LogEv("INFO", "attempt", occ, attempt, 0),
               DataEv(raw, occ, attempt) >> \o ExceptClause(jitter)
       /\ stock_data' = Insert(stock_data, symbols[occ],
                               [index |-> raw.index, columns |-> raw.columns, src |-> <<occ, attempt>>,
                                index_holds |-> raw.index, holds |-> raw.columns])
  /\ pc' = AfterFailedAttemptPc(attempt)
  /\ attempt' = IF AfterFailedAttemptPc(attempt) = "attempt" THEN attempt + 1 ELSE attempt
  /\ UNCHANGED <<calls, symbols, max_retries, occ>>

\* lines 34-50, 65-73: the result is not empty and normalizing it raises
AttemptNormalizeRaises ==
  /\ pc = "attempt"
  /\ \E raw \in ClashingLayouts : \E jitter \in JitterMs :
       /\ NormalizeRaises(raw)
       /\ events' = events \o
            << LogEv("INFO", "attempt", occ, attempt, 0),
               DataEv(raw, occ, attempt) >> \o ExceptClause(jitter)
  /\ pc' = AfterFailedAttemptPc(attempt)
  /\ attempt' = IF AfterFailedAttemptPc(attempt) = "attempt" THEN attempt + 1 ELSE attempt
  /\ UNCHANGED <<calls, symbols, max_retries, occ, stock_data>>

RaiseInit ==
  /\ Init
  /\ Len(symbols) * max_retries + 2 <= MaxRequests

RaiseNext ==
  \/ Start
  \/ NextSymbol
  \/ AttemptSuccess
  \/ AttemptEmpty
  \/ AttemptError
  \/ AttemptHeaderRaises
  \/ AttemptNormalizeRaises
  \/ InterSymbolSleep
  \/ Finish

\* one invocation in which any step of the try block may raise
RaiseSpec == RaiseInit /\ [][RaiseNext]_vars

TypeOK ==
  /\ symbols \in SymbolLists
  /\ max_retries \in 1..MaxRetries
  /\ pc \in {"start", "for", "attempt", "between", "done"}
  /\ occ \in 0..Len(symbols)
  /\ attempt \in 0..(max_retries - 1)
  /\ DOMAIN stock_data \subseteq Symbols

\* ---------------------------------------------------------------- observations
EvIdx == DOMAIN events

IsRequest(k) == events[k].kind = "request"
IsSleep(k)   == events[k].kind = "sleep"
IsLog(k)     == events[k].kind = "log"

RequestIdx == {k \in EvIdx : IsRequest(k)}
SleepIdx   == {k \in EvIdx : IsSleep(k)}
LogIdx     == {k \in EvIdx : IsLog(k)}

Occurrences == 1..Len(symbols)
InputSymbols == {symbols[o] : o \in Occurrences}

RequestsOf(o)     == {k \in RequestIdx : events[k].occ = o}
RetrySleepsOf(o)  == {k \in SleepIdx : events[k].occ = o /\ events[k].tag \in {"backoff", "retry"}}
InterSleepsOf(o)  == {k \in SleepIdx : events[k].occ = o /\ events[k].tag = "inter"}
AttemptLogsOf(o)  == {k \in LogIdx : events[k].occ = o /\ events[k].tag = "attempt"}
ExhaustLogsOf(o)  == {k \in LogIdx : events[k].occ = o /\ events[k].tag = "exhausted"}

\* the occurrence o has finished its attempts
Finished(o) == o < occ \/ (o = occ /\ pc \in {"between", "for", "done"})

Succeeded(o) == \E k \in RequestsOf(o) : events[k].tag = "nonempty"

\* ---------------------------------------------------------------- claims

C2_NoExceptionEscapes ==
  /\ pc # "done" => ENABLED Next
  /\ pc = "done" =>
       /\ occ = Len(symbols)
       /\ \A o \in Occurrences : RequestsOf(o) # {}
       /\ \A s \in InputSymbols :
            (\A o \in Occurrences : symbols[o] = s => ~Succeeded(o))
              => s \notin DOMAIN stock_data

C2_Witness ==
  /\ pc = "done"
  /\ Len(symbols) = 2
  /\ \E k \in RequestIdx : events[k].occ = 1 /\ events[k].tag = "error"
                           /\ events[k].attempt = max_retries - 1
  /\ symbols[1] \notin DOMAIN stock_data
  /\ symbols[2] \in DOMAIN stock_data

AllErrors(o) == \A k \in RequestsOf(o) : events[k].tag = "error"

\* C4 (as amended): for every finished occurrence of a symbol whose attempts
\* all raised, the log holds max_retries attempt records and one exhaustion
\* record for that occurrence, and at the return the symbol is absent from the
\* mapping unless another occurrence of the same symbol succeeded.
C4_AllErrorsPerOccurrence ==
  /\ \A o \in Occurrences :
       (Finished(o) /\ AllErrors(o)) =>
         /\ Cardinality(RequestsOf(o)) = max_retries
         /\ Cardinality(AttemptLogsOf(o)) = max_retries
         /\ {events[k].attempt + 1 : k \in AttemptLogsOf(o)} = 1..max_retries
         /\ Cardinality(ExhaustLogsOf(o)) = 1
         /\ \A k \in ExhaustLogsOf(o) : events[k].level = "ERROR"
  /\ pc = "done" =>
       \A s \in InputSymbols :
         (\A o \in Occurrences : symbols[o] = s => AllErrors(o)) => s \notin DOMAIN stock_data

\* the scenario of the specification: [AAPL, BADSYM], max_retries = 2
C4_Witness ==
  /\ pc = "done"
  /\ symbols = <<"AAPL", "BADSYM">>
  /\ max_retries = 2
  /\ DOMAIN stock_data = {"AAPL"}
  /\ Cardinality(AttemptLogsOf(1)) = 1
  /\ AllErrors(2)
  /\ Cardinality(AttemptLogsOf(2)) = 2
  /\ Cardinality(ExhaustLogsOf(2)) = 1

\* C4 as stated, per symbol: a symbol all of whose attempts raised has
\* max_retries logged attempts and one exhaustion record.
C4_AllErrorsPerSymbol ==
  pc = "done" =>
    \A s \in InputSymbols :
      (\A k \in RequestIdx : events[k].symbol = s => events[k].tag = "error") =>
        /\ s \notin DOMAIN stock_data
        /\ Cardinality({k \in LogIdx : events[k].symbol = s /\ events[k].tag = "attempt"}) = max_retries
        /\ Cardinality({k \in LogIdx : events[k].symbol = s /\ events[k].tag = "exhausted"}) = 1

\* C5: every occurrence abandoned after max_retries unsuccessful attempts has
\* an exhaustion record at error severity, whatever the attempts were.
C5_ExhaustionAlwaysLogged ==
  \A o \in Occurrences :
    (Finished(o) /\ ~Succeeded(o)) =>
      \E k \in ExhaustLogsOf(o) : events[k].level = "ERROR"

\* the request of occurrence o, attempt a (0-based)
RequestAt(o, a) == {k \in RequestIdx : events[k].occ = o /\ events[k].attempt = a}

\* the delays slept between event positions k and m
SleepsBetween(k, m) == {n \in SleepIdx : k < n /\ n < m}

\* C6: the delay slept before attempt k >= 2 (1-based; attempt a = k - 1 >= 1
\* 0-based) is 2^(k-2) s + r, 0 <= r < 1 s, after an error of attempt k-1 and
\* exactly 2 s after an empty result of attempt k-1.
C6_RetryDelays ==
  \A m \in RequestIdx :
    events[m].attempt >= 1 =>
      \E k \in RequestAt(events[m].occ, events[m].attempt - 1) :
        /\ k < m
        /\ Cardinality(SleepsBetween(k, m)) = 1
        /\ \A n \in SleepsBetween(k, m) :
             LET kk == events[m].attempt + 1
             IN  /\ events[k].tag \in {"error", "empty"}
                 /\ events[k].tag = "error" =>
                      /\ events[n].tag = "backoff"
                      /\ events[n].ms >= (2 ^ (kk - 2)) * 1000
                      /\ events[n].ms < (2 ^ (kk - 2)) * 1000 + 1000
                 /\ events[k].tag = "empty" =>
                      /\ events[n].tag = "retry"
                      /\ events[n].ms = 2000

C6_Witness ==
  /\ \E m \in RequestIdx, n \in SleepIdx :
       events[m].attempt = 2 /\ n < m /\ events[n].occ = events[m].occ
       /\ events[n].tag = "backoff" /\ events[n].attempt = 1 /\ events[n].ms > 2000
  /\ \E m \in RequestIdx, n \in SleepIdx :
       events[m].attempt = 2 /\ n < m /\ events[n].occ = events[m].occ
       /\ events[n].tag = "retry" /\ events[n].attempt = 1

Left(o) == o < occ \/ (o = occ /\ pc \in {"for", "done"})

\* C8: once the attempts of an occurrence are over, by success or exhaustion,
\* exactly one 1.5 s delay is slept before the next symbol starts; it follows
\* every request of the occurrence and precedes every request of later ones;
\* at the return the number of 1.5 s delays is the length of the list.
C8_InterSymbolDelay ==
  /\ \A o \in Occurrences :
       /\ Left(o) => Cardinality(InterSleepsOf(o)) = 1
       /\ ~Left(o) => InterSleepsOf(o) = {}
       /\ \A n \in InterSleepsOf(o) :
            /\ events[n].ms = 1500
            /\ \A k \in RequestIdx : (events[k].occ <= o) <=> (k < n)
  /\ \A n \in SleepIdx : events[n].tag = "inter" => events[n].occ \in Occurrences
  /\ pc = "done" =>
       Cardinality({n \in SleepIdx : events[n].tag = "inter"}) = Len(symbols)

C8_Witness ==
  /\ pc = "done"
  /\ Len(symbols) = 2
  /\ Succeeded(1)
  /\ ~Succeeded(2)
  /\ Cardinality({n \in SleepIdx : events[n].tag = "inter"}) = 2

\* C9: with an empty list the function returns an empty mapping, makes no
\* request and sleeps no delay of any kind.
C9_EmptyList ==
  symbols = <<>> =>
    /\ RequestIdx = {}
    /\ SleepIdx = {}
    /\ DOMAIN stock_data = {}
    /\ pc \in {"start", "for", "done"}

C9_Witness ==
  /\ symbols = <<>>
  /\ pc = "done"
  /\ Len(events) = 2

\* the step makes a request that fails (raises or returns an empty result)
FailedAttemptStep ==
  /\ Len(events') > Len(events)
  /\ \E k \in (Len(events) + 1)..Len(events') :
       events'[k].kind = "request" /\ events'[k].tag \in {"error", "empty"}

\* C10: the mapping only grows; a failed attempt (also one of a later
\* occurrence of the same symbol) changes no entry, and any step leaves the
\* entries of the symbols other than the current one unchanged.
C10_EntriesKept ==
  [][ /\ pc # "start" => DOMAIN stock_data \subseteq DOMAIN stock_data'
      /\ FailedAttemptStep => stock_data' = stock_data
      /\ pc = "attempt" =>
           \A s \in DOMAIN stock_data :
             s # symbols[occ] => (s \in DOMAIN stock_data' /\ stock_data'[s] = stock_data[s])
    ]_vars

C10_Witness ==
  /\ Len(symbols) = 2
  /\ symbols[1] = symbols[2]
  /\ Succeeded(1)
  /\ \E k \in RequestsOf(2) : events[k].tag \in {"error", "empty"}
  /\ pc = "done"
  /\ symbols[1] \in DOMAIN stock_data
  /\ stock_data[symbols[1]].src[1] = 1

\* C11: a run always terminates: every run reaches the return with every list
\* position processed, and at every moment the number of requests is at most
\* max_retries per occurrence, hence at most max_retries * Len(symbols) in all.
C11_Terminates ==
  /\ <>(pc = "done" /\ occ = Len(symbols))
  /\ [](/\ \A o \in Occurrences : Cardinality(RequestsOf(o)) <= max_retries
        /\ \A k \in RequestIdx : events[k].occ \in Occurrences
        /\ Cardinality(RequestIdx) <= max_retries * Len(symbols))

C11_Witness ==
  /\ pc = "done"
  /\ Len(symbols) = 2
  /\ max_retries = 3
  /\ Cardinality(RequestIdx) = max_retries * Len(symbols)

\* the backoff delays of the trace t, by list position and attempt
BackoffsOf(t) ==
  {<<t[k].occ, t[k].attempt, t[k].ms>> : k \in {n \in DOMAIN t : t[n].kind = "sleep" /\ t[n].tag = "backoff"}}

\* C12: idempotence: a second invocation with the same arguments against a
\* provider that answers the same request in the same way returns the same
\* mapping (same keys, same series), whatever jitter the two invocations drew.
C12_Idempotent ==
  (calls # <<>> /\ pc = "done") => stock_data = calls[1].returned

C12_Witness ==
  /\ calls # <<>>
  /\ pc = "done"
  /\ Len(symbols) = 2
  /\ Cardinality(DOMAIN stock_data) = 1
  /\ BackoffsOf(events) # {}
  /\ BackoffsOf(events) \cap BackoffsOf(calls[1].events) = {}

\* the events of the loop body, those that belong to a list position
BodyIdx == {k \in EvIdx : events[k].occ \in Occurrences}

\* position (o1, a1) comes before position (o2, a2)
Precedes(o1, a1, o2, a2) == o1 < o2 \/ (o1 = o2 /\ a1 < a2)

\* no request lies strictly between the events k and m
Adjacent(k, m) == k < m /\ \A n \in RequestIdx : ~(k < n /\ n < m)

\* C13: execution is sequential and in input order: the requests are made in
\* the order of the list and, for one position, in increasing attempt number
\* starting at 1 with no gap; every event of a position (its requests, its retry
\* delays, its 1.5 s delay) precedes every event of the next position, and a
\* delay is always over before the next request is issued.
C13_SequentialInOrder ==
  /\ \A k, m \in RequestIdx :
       k < m => Precedes(events[k].occ, events[k].attempt, events[m].occ, events[m].attempt)
  /\ \A m \in RequestIdx :
       \/ events[m].occ = 1 /\ events[m].attempt = 0 /\ \A k \in RequestIdx : m <= k
       \/ \E k \in RequestIdx :
            /\ Adjacent(k, m)
            /\ \/ events[m].occ = events[k].occ /\ events[m].attempt = events[k].attempt + 1
               \/ events[m].occ = events[k].occ + 1 /\ events[m].attempt = 0
  /\ \A k, m \in BodyIdx : k < m => events[k].occ <= events[m].occ
  /\ \A m \in RequestIdx :
       events[m].occ > 1 =>
         \E n \in InterSleepsOf(events[m].occ - 1) : n < m
  /\ \A n \in SleepIdx : \A m \in RequestIdx :
       (events[n].tag # "inter" /\ events[n].occ = events[m].occ) =>
         (n < m <=> events[n].attempt < events[m].attempt)

C13_Witness ==
  /\ pc = "done"
  /\ Len(symbols) = 2
  /\ symbols[1] # symbols[2]
  /\ Cardinality(RequestsOf(1)) = 3
  /\ Cardinality(RequestsOf(2)) = 2
  /\ Cardinality(RetrySleepsOf(1)) = 2

\* C14: a retry delay (backoff or fixed 2 s) is slept only when attempts
\* remain: none follows attempt number max_retries, and once an occurrence is
\* finished its retry delays number its attempts minus one; after a failed last
\* attempt the next delay is the 1.5 s one.
C14_DelayOnlyWhenAttemptsRemain ==
  /\ \A n \in SleepIdx :
       events[n].tag \in {"backoff", "retry"} => events[n].attempt + 1 < max_retries
  /\ \A o \in Occurrences :
       /\ Finished(o) => Cardinality(RetrySleepsOf(o)) = Cardinality(RequestsOf(o)) - 1
       /\ (o = occ /\ pc = "attempt") => Cardinality(RetrySleepsOf(o)) = Cardinality(RequestsOf(o))
       /\ \A k \in RequestsOf(o) :
            (events[k].attempt + 1 = max_retries /\ events[k].tag # "nonempty") =>
              \A n \in SleepIdx : n > k => (events[n].occ > o \/ events[n].tag = "inter")

C14_Witness ==
  /\ pc = "done"
  /\ max_retries = 3
  /\ \E o \in Occurrences :
       /\ Cardinality(RequestsOf(o)) = 3
       /\ \E k \in RequestsOf(o) : events[k].attempt = 2 /\ events[k].tag = "empty"
       /\ Cardinality(RetrySleepsOf(o)) = 2
  /\ \E o \in Occurrences :
       /\ \E k \in RequestsOf(o) : events[k].attempt = 2 /\ events[k].tag = "error"
       /\ Cardinality(RetrySleepsOf(o)) = 2

CanonicalColumns == <<"Close", "High", "Low", "Open", "Volume">>

\* C15: normalization is positional: whatever the raw names, the index of the
\* raw table becomes the index named Date, the raw data column at position p
\* (1..5) is stored under the p-th of the names Close, High, Low, Open, Volume,
\* no column is lost or reordered, and a raw table of five data columns is
\* stored with exactly the columns Close, High, Low, Open, Volume in that order.
C15_PositionalNormalization ==
  \A k \in RequestIdx :
    (/\ events[k].tag = "nonempty"
     /\ events[k].symbol \in DOMAIN stock_data
     /\ stock_data[events[k].symbol].src = <<events[k].occ, events[k].attempt>>) =>
      LET r   == stock_data[events[k].symbol]
          raw == events[k].raw
      IN  /\ r.index = "Date"
          /\ r.index_holds = raw.index
          /\ Len(r.columns) = Len(raw.columns)
          /\ r.holds = raw.columns
          /\ \A p \in DOMAIN r.columns : p <= 5 => r.columns[p] = CanonicalColumns[p]
          /\ Len(raw.columns) = 5 => r.columns = CanonicalColumns

C15_Witness ==
  \E k \in RequestIdx :
    /\ events[k].tag = "nonempty"
    /\ events[k].raw.index = "Datetime"
    /\ events[k].raw.columns[1] = "Open"
    /\ events[k].symbol \in DOMAIN stock_data
    /\ stock_data[events[k].symbol].src = <<events[k].occ, events[k].attempt>>
    /\ stock_data[events[k].symbol].columns[1] = "Close"
    /\ stock_data[events[k].symbol].holds[1] = "Open"

\* the requests of occurrence o before attempt a that returned an empty result
EmptiesBefore(o, a) ==
  {k \in RequestsOf(o) : events[k].attempt < a /\ events[k].tag = "empty"}

\* C16: the backoff after an error depends on the attempt number only: an
\* error on attempt k (1-based, k < max_retries) is followed by a delay of
\* 2^(k-1) s + r, 0 <= r < 1 s, also when earlier attempts of the occurrence
\* returned empty results; the delay is logged before it is slept, and a fixed
\* 2 s delay advances the attempt number by one and nothing else.
C16_BackoffByAttemptNumber ==
  /\ \A m \in RequestIdx :
       (events[m].tag = "error" /\ events[m].attempt + 1 < max_retries) =>
         LET kk == events[m].attempt + 1
         IN  /\ m + 3 \in SleepIdx
             /\ events[m + 3].tag = "backoff"
             /\ events[m + 3].occ = events[m].occ
             /\ events[m + 3].ms >= (2 ^ (kk - 1)) * 1000
             /\ events[m + 3].ms < (2 ^ (kk - 1)) * 1000 + 1000
             /\ events[m + 2].kind = "log" /\ events[m + 2].tag = "waiting"
             /\ events[m + 2].ms = events[m + 3].ms
  /\ \A n \in SleepIdx :
       events[n].tag = "retry" =>
         /\ events[n].ms = 2000
         /\ \A m \in RequestIdx :
              (Adjacent(n, m) /\ \A j \in RequestIdx : j > n => m <= j) =>
                /\ events[m].occ = events[n].occ
                /\ events[m].attempt = events[n].attempt + 1

\* the example of the claim: empty on attempt 1, error on attempt 2, delay 2 s + r
C16_Witness ==
  \E m \in RequestIdx :
    /\ events[m].tag = "error"
    /\ events[m].attempt = 1
    /\ Cardinality(EmptiesBefore(events[m].occ, 1)) = 1
    /\ m + 3 \in SleepIdx
    /\ events[m + 3].ms = 2999

\* the occurrences of the symbol s that got a non-empty result
SuccessesOf(s) == {o \in Occurrences : symbols[o] = s /\ Succeeded(o)}

NewErrorLogs ==
  {k \in (Len(events) + 1)..Len(events') : events'[k].kind = "log" /\ events'[k].tag = "error"}

\* C18: the insertion is the last step of the try block that can fail: a step
\* in which the except clause runs, wherever the exception was raised (header,
\* request or normalization), inserts nothing and ends as a provider error
\* does: the error record, then the logged backoff and the next attempt if
\* attempts remain, otherwise the exhaustion record and the end of the retries.
C18_RaiseBeforeInsert ==
  [][ NewErrorLogs # {} =>
        /\ stock_data' = stock_data
        /\ occ' = occ
        /\ \A k \in NewErrorLogs :
             /\ events'[k].level = "ERROR"
             /\ events'[k].occ = occ /\ events'[k].attempt = attempt
             /\ IF attempt + 1 < max_retries
                  THEN /\ Len(events') = k + 2
                       /\ events'[k + 1].kind = "log" /\ events'[k + 1].tag = "waiting"
                       /\ events'[k + 2].kind = "sleep" /\ events'[k + 2].tag = "backoff"
                       /\ events'[k + 2].ms = events'[k + 1].ms
                       /\ events'[k + 2].ms >= (2 ^ attempt) * 1000
                       /\ events'[k + 2].ms < (2 ^ attempt) * 1000 + 1000
                       /\ pc' = "attempt"
                       /\ attempt' = attempt + 1
                  ELSE /\ Len(events') = k + 1
                       /\ events'[k + 1].kind = "log" /\ events'[k + 1].tag = "exhausted"
                       /\ events'[k + 1].level = "ERROR"
                       /\ pc' = "between"
    ]_vars

\* the header raised (no request), the table could not be normalized (a
\* non-empty answer followed by the error record), the retries went on
C18_Witness ==
  /\ pc = "done"
  /\ \E k \in LogIdx :
       /\ events[k].tag = "attempt" /\ events[k].attempt = 0
       /\ events[k + 1].kind = "log" /\ events[k + 1].tag = "error"
       /\ \E m \in RequestsOf(events[k].occ) : events[m].attempt = 1
  /\ \E k \in RequestIdx :
       /\ events[k].tag = "nonempty"
       /\ events[k + 1].kind = "log" /\ events[k + 1].tag = "error"
       /\ events[k].symbol \notin DOMAIN stock_data
       /\ events[k].attempt + 1 = max_retries
       /\ ExhaustLogsOf(events[k].occ) # {}

====
